---- MODULE Spec2Model ----
(***************************************************************************)
(* Compact IR validation and evaluation metrics of the cad0 training       *)
(* package (packages/training/src/modal/eval.py).                          *)
(*                                                                         *)
(* A Python str is a sequence of one-character strings.  None is a value   *)
(* that is no such sequence.                                               *)
(***************************************************************************)
EXTENDS Integers, Sequences, FiniteSets, TLC

VARIABLES
    dataset,            \* evaluate_model's dataset: examples with the model's completion
    validate_geometry,  \* evaluate_model's validate_geometry argument
    engine,             \* evaluate_model's engine argument (None or an engine)
    max_samples,        \* evaluate_model's max_samples argument
    pc,                 \* position in evaluate_model
    samples,            \* the examples the loop iterates
    results,            \* list of EvalMetrics
    errors,             \* dict error_type -> count
    agg,                \* the AggregateMetrics returned, None before
    cm,                 \* the dict compute_metrics returns for results, None before
    refCalls,           \* number of validate_references calls made so far
    frames,             \* the validator calls in progress, each with its own locals
    table,              \* the module global COMPACT_IR_PATTERNS as the calls see it
    train               \* the training run of the Modal app: position, saves, commits

vars == <<dataset, validate_geometry, engine, max_samples, pc, samples, results, errors, agg, cm, refCalls, frames, table, train>>

\* the state of evaluate_model and compute_metrics
evalVars == <<dataset, validate_geometry, engine, max_samples, pc, samples, results, errors, agg, cm, refCalls>>

None == <<"<None>">>

----------------------------------------------------------------------------
(* Characters and str methods *)

\* str.isspace(): the whitespace characters of the modelled alphabet
Space == {" ", "\t", "\n", "\r"}

\* the decimal digits matched by \d and accepted by int()
Digit == {"0", "1", "2", "3", "4", "5", "6", "7", "8", "9"}

DigitValue(c) ==
    CASE c = "0" -> 0 [] c = "1" -> 1 [] c = "2" -> 2 [] c = "3" -> 3 [] c = "4" -> 4
      [] c = "5" -> 5 [] c = "6" -> 6 [] c = "7" -> 7 [] c = "8" -> 8 [] c = "9" -> 9

DigitChar(d) ==
    CASE d = 0 -> "0" [] d = 1 -> "1" [] d = 2 -> "2" [] d = 3 -> "3" [] d = 4 -> "4"
      [] d = 5 -> "5" [] d = 6 -> "6" [] d = 7 -> "7" [] d = 8 -> "8" [] d = 9 -> "9"

RECURSIVE LStrip(_)
LStrip(s) ==
    IF s # <<>> /\ Head(s) \in Space THEN LStrip(Tail(s)) ELSE s

RECURSIVE RStrip(_)
RStrip(s) ==
    IF s # <<>> /\ s[Len(s)] \in Space THEN RStrip(SubSeq(s, 1, Len(s) - 1)) ELSE s

\* str.strip()
Strip(s) ==
    RStrip(LStrip(s))

\* the members of a finite set of integers in increasing order
Sorted(S) ==
    [k \in 1..Cardinality(S) |-> CHOOSE i \in S : Cardinality({x \in S : x < i}) = k - 1]

\* str.split(sep) for a one-character sep: "" gives [""], "a\n" gives ["a", ""]
Split(s, sep) ==
    LET at == Sorted({i \in 1..Len(s) : s[i] = sep})
        n == Len(at)
    IN  [k \in 1..(n + 1) |->
            SubSeq(s, IF k = 1 THEN 1 ELSE at[k - 1] + 1,
                      IF k = n + 1 THEN Len(s) ELSE at[k] - 1)]

\* str.split() without argument: runs of whitespace separate, no empty parts
SplitWs(s) ==
    LET starts == Sorted({i \in 1..Len(s) : s[i] \notin Space /\ (i = 1 \/ s[i - 1] \in Space)})
        ends == Sorted({i \in 1..Len(s) :
                            s[i] \notin Space /\ (i = Len(s) \/ s[i + 1] \in Space)})
    IN  [k \in 1..Len(starts) |-> SubSeq(s, starts[k], ends[k])]

\* s[:n]
Slice(s, n) ==
    SubSeq(s, 1, IF Len(s) < n THEN Len(s) ELSE n)

\* str(n) / f"{n}" of an int
RECURSIVE NatToStr(_)
NatToStr(n) ==
    IF n < 10 THEN <<DigitChar(n)>> ELSE Append(NatToStr(n \div 10), DigitChar(n % 10))

IntToStr(n) ==
    IF n < 0 THEN <<"-">> \o NatToStr(-n) ELSE NatToStr(n)

RECURSIVE DigitsValue(_, _)
DigitsValue(s, acc) ==
    IF s = <<>> THEN acc ELSE DigitsValue(Tail(s), 10 * acc + DigitValue(Head(s)))

\* sys.int_info.default_max_str_digits of the interpreter the image installs
IntMaxStrDigits == 4300

\* int(tok) for a token without whitespace: ok = FALSE stands for ValueError, raised
\* for a token that is not an optional sign and decimal digits, and for one of more
\* than IntMaxStrDigits digits
ParseInt(tok) ==
    LET signed == tok # <<>> /\ Head(tok) \in {"-", "+"}
        body == IF signed THEN Tail(tok) ELSE tok
        ok == /\ body # <<>>
              /\ Len(body) <= IntMaxStrDigits
              /\ \A k \in 1..Len(body) : body[k] \in Digit
    IN  IF ~ok THEN [ok |-> FALSE, val |-> 0]
        ELSE [ok |-> TRUE,
              val |-> IF signed /\ Head(tok) = "-" THEN -DigitsValue(body, 0)
                      ELSE DigitsValue(body, 0)]

----------------------------------------------------------------------------
(* COMPACT_IR_PATTERNS: each regular expression as its sequence of items,  *)
(* between ^ and $                                                         *)

Lit(c) == <<"lit", c>>
\* \s+
WS == <<"plus", "s">>
\* \d+
INT == <<"plus", "d">>
\* [\d.]+
DEC == <<"plus", "dd">>
\* -?
OptMinus == <<"opt", "-">>

InClass(c, cls) ==
    CASE cls = "s" -> c \in Space
      [] cls = "d" -> c \in Digit
      [] cls = "dd" -> c \in Digit \cup {"."}

COMPACT_IR_PATTERNS ==
    << [name |-> "cube",         pat |-> <<Lit("C"), WS, DEC, WS, DEC, WS, DEC>>],
       [name |-> "cylinder",     pat |-> <<Lit("Y"), WS, DEC, WS, DEC>>],
       [name |-> "sphere",       pat |-> <<Lit("S"), WS, DEC>>],
       [name |-> "cone",         pat |-> <<Lit("K"), WS, DEC, WS, DEC, WS, DEC>>],
       [name |-> "translate",    pat |-> <<Lit("T"), WS, INT, WS, OptMinus, DEC, WS, OptMinus, DEC, WS, OptMinus, DEC>>],
       [name |-> "rotate",       pat |-> <<Lit("R"), WS, INT, WS, OptMinus, DEC, WS, OptMinus, DEC, WS, OptMinus, DEC>>],
       [name |-> "scale",        pat |-> <<Lit("S"), Lit("C"), WS, INT, WS, DEC, WS, DEC, WS, DEC>>],
       [name |-> "union",        pat |-> <<Lit("U"), WS, INT, WS, INT>>],
       [name |-> "difference",   pat |-> <<Lit("D"), WS, INT, WS, INT>>],
       [name |-> "intersection", pat |-> <<Lit("I"), WS, INT, WS, INT>>] >>

\* the end of the longest run of characters of class cls from position j of s: the
\* first position from j on that holds no character of the class
RunEnd(s, j, cls) ==
    CHOOSE e \in j..(Len(s) + 1) :
        /\ e = Len(s) + 1 \/ ~InClass(s[e], cls)
        /\ \A m \in j..(e - 1) : InClass(s[m], cls)

\* pattern.match(s): items i.. of pat match s from position j up to $ (the end of s,
\* or just before a final newline)
RECURSIVE MatchFrom(_, _, _, _)
MatchFrom(pat, s, i, j) ==
    IF i > Len(pat)
    THEN j = Len(s) + 1 \/ (j = Len(s) /\ s[j] = "\n")
    ELSE LET it == pat[i] IN
         CASE it[1] = "lit" ->
                j <= Len(s) /\ s[j] = it[2] /\ MatchFrom(pat, s, i + 1, j + 1)
           [] it[1] = "opt" ->
                \/ j <= Len(s) /\ s[j] = it[2] /\ MatchFrom(pat, s, i + 1, j + 1)
                \/ MatchFrom(pat, s, i + 1, j)
           [] it[1] = "plus" ->
                /\ j <= Len(s) + 1
                /\ \E k \in j..(RunEnd(s, j, it[2]) - 1) : MatchFrom(pat, s, i + 1, k + 1)

PatternMatch(pat, line) ==
    MatchFrom(pat, line, 1, 1)

\* the inner loop of validate_syntax: does any pattern match the line
Matched(line) ==
    \E p \in 1..Len(COMPACT_IR_PATTERNS) : PatternMatch(COMPACT_IR_PATTERNS[p].pat, line)

----------------------------------------------------------------------------
(* validate_syntax *)

MsgEmptyIR == <<"E", "m", "p", "t", "y", " ", "I", "R">>
MsgInvalidSyntaxAtLine == <<"I", "n", "v", "a", "l", "i", "d", " ", "s", "y", "n", "t", "a", "x", " ", "a", "t", " ", "l", "i", "n", "e", " ">>
MsgColonSpace == <<":", " ">>
MsgNoValidOps == <<"N", "o", " ", "v", "a", "l", "i", "d", " ", "o", "p", "e", "r", "a", "t", "i", "o", "n", "s", " ", "f", "o", "u", "n", "d">>
MsgInvalidReference == <<"I", "n", "v", "a", "l", "i", "d", " ", "r", "e", "f", "e", "r", "e", "n", "c", "e", " ">>
MsgInvalidReferences == <<"I", "n", "v", "a", "l", "i", "d", " ", "r", "e", "f", "e", "r", "e", "n", "c", "e", "s", " ">>
MsgAtNode == <<" ", "a", "t", " ", "n", "o", "d", "e", " ">>
MsgCommaSpace == <<",", " ">>

\* line[:50] in the syntax error message
ExcerptLen == 50

\* the message carries the whole line
SyntaxErrorMsg_WholeLine(i, line) ==
    MsgInvalidSyntaxAtLine \o IntToStr(i + 1) \o MsgColonSpace \o line

\* f"Invalid syntax at line {i + 1}: {line[:50]}", i the 0-based enumerate index
SyntaxErrorMsg(i, line) ==
    MsgInvalidSyntaxAtLine \o IntToStr(i + 1) \o MsgColonSpace \o Slice(line, ExcerptLen)

\* "if not line: continue" on the stripped line, in both loops
IsBlank(line) ==
    line = <<>>

\* a blank line is skipped but counted as a node
RECURSIVE SyntaxLoop_BlankCounts(_, _, _)
SyntaxLoop_BlankCounts(lines, i, node_count) ==
    IF i >= Len(lines)
    THEN IF node_count = 0
         THEN [valid |-> FALSE, error |-> MsgNoValidOps, node_count |-> node_count,
               counted |-> <<>>]
         ELSE [valid |-> TRUE, error |-> None, node_count |-> node_count, counted |-> <<>>]
    ELSE LET line == Strip(lines[i + 1]) IN
         IF IsBlank(line) THEN SyntaxLoop_BlankCounts(lines, i + 1, node_count + 1)
         ELSE IF Matched(line)
         THEN [SyntaxLoop_BlankCounts(lines, i + 1, node_count + 1)
                  EXCEPT !.counted = <<node_count>> \o @]
         ELSE [valid |-> FALSE, error |-> SyntaxErrorMsg(i, line), node_count |-> node_count,
               counted |-> <<node_count>>]

\* the for loop of validate_syntax from 0-based index i on, and what follows it;
\* node_count is returned along with the verdict, and counted lists the value of
\* node_count at each non-blank line the loop reached, in order
RECURSIVE SyntaxLoop(_, _, _)
SyntaxLoop(lines, i, node_count) ==
    IF i >= Len(lines)
    THEN IF node_count = 0
         THEN [valid |-> FALSE, error |-> MsgNoValidOps, node_count |-> node_count,
               counted |-> <<>>]
         ELSE [valid |-> TRUE, error |-> None, node_count |-> node_count, counted |-> <<>>]
    ELSE LET line == Strip(lines[i + 1]) IN
         IF IsBlank(line) THEN SyntaxLoop(lines, i + 1, node_count)
         ELSE IF Matched(line)
         THEN [SyntaxLoop(lines, i + 1, node_count + 1) EXCEPT !.counted = <<node_count>> \o @]
         ELSE [valid |-> FALSE, error |-> SyntaxErrorMsg(i, line), node_count |-> node_count,
               counted |-> <<node_count>>]

\* the empty-input test is missing
validate_syntax_NoEmptyTest(ir) ==
    SyntaxLoop(Split(Strip(ir), "\n"), 0, 0)

\* only the empty string is tested for, not the whitespace-only one
validate_syntax_NoStripTest(ir) ==
    IF ir = <<>>
    THEN [valid |-> FALSE, error |-> MsgEmptyIR, node_count |-> 0, counted |-> <<>>]
    ELSE SyntaxLoop(Split(Strip(ir), "\n"), 0, 0)

validate_syntax(ir) ==
    IF ir = <<>> \/ Strip(ir) = <<>>
    THEN [valid |-> FALSE, error |-> MsgEmptyIR, node_count |-> 0, counted |-> <<>>]
    ELSE SyntaxLoop(Split(Strip(ir), "\n"), 0, 0)

----------------------------------------------------------------------------
(* validate_references *)

TransformOps == {<<"T">>, <<"R">>, <<"S", "C">>}
BooleanOps == {<<"U">>, <<"D">>, <<"I">>}

\* f"Invalid reference {ref} at node {node_index}"
ReferenceErrorMsg(ref, node_index) ==
    MsgInvalidReference \o IntToStr(ref) \o MsgAtNode \o IntToStr(node_index)

\* f"Invalid references {ref1}, {ref2} at node {node_index}"
ReferencesErrorMsg(ref1, ref2, node_index) ==
    MsgInvalidReferences \o IntToStr(ref1) \o MsgCommaSpace \o IntToStr(ref2)
        \o MsgAtNode \o IntToStr(node_index)

\* a reference to the line's own index passes
OutOfRange_SelfAllowed(ref, node_index) ==
    ref > node_index

\* ref >= node_index: the reference names no node created before this line
OutOfRange(ref, node_index) ==
    ref >= node_index

\* the for loop of validate_references from 1-based position p on.  raised = TRUE
\* stands for the ValueError of int() leaving the function; checked lists the value
\* of node_index at each non-blank line the loop reached, in order, and node_index is
\* its value when the function is left.
RECURSIVE ReferencesLoop(_, _, _)
ReferencesLoop(lines, p, node_index) ==
    IF p > Len(lines)
    THEN [valid |-> TRUE, error |-> None, raised |-> FALSE, checked |-> <<>>,
          node_index |-> node_index]
    ELSE LET line == Strip(lines[p])
             parts == SplitWs(line)
             op == parts[1]
             rest == ReferencesLoop(lines, p + 1, node_index + 1)
             continue == [rest EXCEPT !.checked = <<node_index>> \o @]
         IN
         IF IsBlank(line) THEN ReferencesLoop(lines, p + 1, node_index)
         ELSE IF op \in TransformOps /\ Len(parts) >= 2
         THEN LET ref == ParseInt(parts[2]) IN
              IF ~ref.ok
              THEN [valid |-> FALSE, error |-> None, raised |-> TRUE,
                    checked |-> <<node_index>>, node_index |-> node_index]
              ELSE IF OutOfRange(ref.val, node_index)
              THEN [valid |-> FALSE, error |-> ReferenceErrorMsg(ref.val, node_index),
                    raised |-> FALSE, checked |-> <<node_index>>, node_index |-> node_index]
              ELSE continue
         ELSE IF op \in BooleanOps /\ Len(parts) >= 3
         THEN LET ref1 == ParseInt(parts[2])
                  ref2 == ParseInt(parts[3])
              IN
              IF ~ref1.ok \/ ~ref2.ok
              THEN [valid |-> FALSE, error |-> None, raised |-> TRUE,
                    checked |-> <<node_index>>, node_index |-> node_index]
              ELSE IF OutOfRange(ref1.val, node_index) \/ OutOfRange(ref2.val, node_index)
              THEN [valid |-> FALSE,
                    error |-> ReferencesErrorMsg(ref1.val, ref2.val, node_index),
                    raised |-> FALSE, checked |-> <<node_index>>, node_index |-> node_index]
              ELSE continue
         ELSE continue

\* node_index starts at 1
validate_references_FromOne(ir) ==
    ReferencesLoop(Split(Strip(ir), "\n"), 1, 1)

validate_references(ir) ==
    ReferencesLoop(Split(Strip(ir), "\n"), 1, 0)

----------------------------------------------------------------------------
(* evaluate_single *)

\* Optional[bool] values of EvalMetrics.geometry_valid
GeoNone == "None"
GeoTrue == "True"
GeoFalse == "False"

\* engine argument values
NoEngine == "None"
AnEngine == "engine"

\* only the target is stripped
exact_match_TargetOnly(target, generated_ir) ==
    Strip(target) = generated_ir

\* target_ir == generated_normalized, both stripped
exact_match(target, generated_ir) ==
    Strip(target) = Strip(generated_ir)

\* the geometry branch is entered whatever the syntax check returned
evaluate_single_GeometryUnguarded(example, vg, eng) ==
    LET generated_ir == example.completion
        syn == validate_syntax(generated_ir)
        ref == validate_references(generated_ir)
        ref_failed == syn.valid /\ ~ref.valid
        syntax_valid == IF ref_failed THEN FALSE ELSE syn.valid
        syntax_error == IF ref_failed THEN ref.error ELSE syn.error
        geometry_valid == IF vg /\ eng # NoEngine THEN GeoTrue ELSE GeoNone
    IN  [syntax_valid |-> syntax_valid,
         geometry_valid |-> geometry_valid,
         exact_match |-> exact_match(example.ir, generated_ir),
         generated_ir |-> generated_ir,
         error_message |-> syntax_error,
         ref_called |-> syn.valid,
         raised |-> syn.valid /\ ref.raised]

\* the reference check runs first and its error is the one reported
evaluate_single_ReferencesFirst(example, vg, eng) ==
    LET generated_ir == example.completion
        syn == validate_syntax(generated_ir)
        ref == validate_references(generated_ir)
        ref_failed == ~ref.valid /\ ~ref.raised
        syntax_valid == IF ref_failed THEN FALSE ELSE syn.valid
        syntax_error == IF ref_failed THEN ref.error ELSE syn.error
        geometry_valid == IF vg /\ syntax_valid /\ eng # NoEngine THEN GeoTrue ELSE GeoNone
    IN  [syntax_valid |-> syntax_valid,
         geometry_valid |-> geometry_valid,
         exact_match |-> exact_match(example.ir, generated_ir),
         generated_ir |-> generated_ir,
         error_message |-> syntax_error,
         ref_called |-> TRUE,
         raised |-> FALSE]

\* validate_references is called whatever validate_syntax returned
evaluate_single_Unguarded(example, vg, eng) ==
    LET generated_ir == example.completion
        syn == validate_syntax(generated_ir)
        ref == validate_references(generated_ir)
        ref_failed == ~ref.valid
        syntax_valid == IF ref_failed THEN FALSE ELSE syn.valid
        syntax_error == IF ref_failed THEN ref.error ELSE syn.error
        geometry_valid == IF vg /\ syntax_valid /\ eng # NoEngine THEN GeoTrue ELSE GeoNone
    IN  [syntax_valid |-> syntax_valid,
         geometry_valid |-> geometry_valid,
         exact_match |-> exact_match(example.ir, generated_ir),
         generated_ir |-> generated_ir,
         error_message |-> syntax_error,
         ref_called |-> TRUE,
         raised |-> ref.raised]

\* evaluate_single on an example whose completion is what generate_completion
\* returns for it.  ref_called records whether validate_references was called,
\* raised whether an exception left the function.
evaluate_single(example, vg, eng) ==
    LET generated_ir == example.completion
        syn == validate_syntax(generated_ir)
        ref == validate_references(generated_ir)
        ref_failed == syn.valid /\ ~ref.valid
        syntax_valid == IF ref_failed THEN FALSE ELSE syn.valid
        syntax_error == IF ref_failed THEN ref.error ELSE syn.error
        geometry_valid == IF vg /\ syntax_valid /\ eng # NoEngine THEN GeoTrue ELSE GeoNone
    IN  [syntax_valid |-> syntax_valid,
         geometry_valid |-> geometry_valid,
         exact_match |-> exact_match(example.ir, generated_ir),
         generated_ir |-> generated_ir,
         error_message |-> syntax_error,
         ref_called |-> syn.valid,
         raised |-> syn.valid /\ ref.raised]

\* the EvalMetrics fields of an evaluate_single outcome
EvalMetrics(m) ==
    [syntax_valid |-> m.syntax_valid,
     geometry_valid |-> m.geometry_valid,
     exact_match |-> m.exact_match,
     generated_ir |-> m.generated_ir,
     error_message |-> m.error_message]

----------------------------------------------------------------------------
(* evaluate_model and compute_metrics *)

RECURSIVE Gcd(_, _)
Gcd(a, b) ==
    IF b = 0 THEN a ELSE Gcd(b, a % b)

\* count / total for total > 0: the quotient, as a fraction in lowest terms
Divide(count, total) ==
    LET g == Gcd(count, total) IN <<count \div g, total \div g>>

\* the int 0 returned when total is 0
Zero == <<0, 1>>

\* sum(1 for ... if ...) over the flags of a list, in list order
RECURSIVE CountTrue(_)
CountTrue(flags) ==
    IF flags = <<>> THEN 0
    ELSE (IF Head(flags) THEN 1 ELSE 0) + CountTrue(Tail(flags))

\* sum(1 for r in rs if r.syntax_valid)
CountSyntaxValid(rs) ==
    CountTrue([k \in 1..Len(rs) |-> rs[k].syntax_valid])

\* sum(1 for r in rs if r.geometry_valid is True)
CountGeometryValid(rs) ==
    CountTrue([k \in 1..Len(rs) |-> rs[k].geometry_valid = GeoTrue])

\* sum(1 for r in rs if r.exact_match)
CountExactMatch(rs) ==
    CountTrue([k \in 1..Len(rs) |-> rs[k].exact_match])

\* error_message.split(":")[0]
error_type(message) ==
    Split(message, ":")[1]

\* errors[error_type] = errors.get(error_type, 0) + 1, when error_message is truthy
CountError(errs, message) ==
    IF message = None \/ message = <<>> THEN errs
    ELSE LET k == error_type(message) IN
         IF k \in DOMAIN errs THEN [errs EXCEPT ![k] = @ + 1]
         ELSE [x \in DOMAIN errs \cup {k} |-> IF x = k THEN 1 ELSE errs[x]]

\* the AggregateMetrics built at the end of evaluate_model
AggregateMetrics(rs, errs) ==
    LET total == Len(rs)
        syntax_valid == CountSyntaxValid(rs)
        geometry_valid == CountGeometryValid(rs)
        exact == CountExactMatch(rs)
    IN  [total |-> total,
         syntax_valid |-> syntax_valid,
         geometry_valid |-> geometry_valid,
         exact_match |-> exact,
         syntax_accuracy |-> IF total > 0 THEN Divide(syntax_valid, total) ELSE Zero,
         geometry_accuracy |-> IF total > 0 THEN Divide(geometry_valid, total) ELSE Zero,
         exact_match_accuracy |-> IF total > 0 THEN Divide(exact, total) ELSE Zero,
         errors |-> errs]

\* the exact-match accuracy is computed from the syntax count
compute_metrics_SyntaxForExact(eval_results) ==
    LET total == Len(eval_results) IN
    IF total = 0
    THEN [syntax_accuracy |-> Zero, geometry_accuracy |-> Zero, exact_match_accuracy |-> Zero]
    ELSE [syntax_accuracy |-> Divide(CountSyntaxValid(eval_results), total),
          geometry_accuracy |-> Divide(CountGeometryValid(eval_results), total),
          exact_match_accuracy |-> Divide(CountSyntaxValid(eval_results), total)]

compute_metrics(eval_results) ==
    LET total == Len(eval_results) IN
    IF total = 0
    THEN [syntax_accuracy |-> Zero, geometry_accuracy |-> Zero, exact_match_accuracy |-> Zero]
    ELSE [syntax_accuracy |-> Divide(CountSyntaxValid(eval_results), total),
          geometry_accuracy |-> Divide(CountGeometryValid(eval_results), total),
          exact_match_accuracy |-> Divide(CountExactMatch(eval_results), total)]

NotReturned == [returned |-> FALSE]
EmptyDict == [x \in {} |-> 0]

----------------------------------------------------------------------------
(* The examples evaluated: bounded families of completions *)

MaxChars == 4
MaxOperands == 5
MaxLines == 3
MaxRef == 2
MaxExamples == 2
LongLine == 52

SP == <<" ">>
NL == <<"\n">>

RECURSIVE JoinWith(_, _)
JoinWith(parts, sep) ==
    IF parts = <<>> THEN <<>>
    ELSE IF Len(parts) = 1 THEN parts[1]
    ELSE parts[1] \o sep \o JoinWith(Tail(parts), sep)

SeqsUpTo(S, n) ==
    UNION {[1..k -> S] : k \in 0..n}

\* every string of at most MaxChars characters over a small alphabet
CharAlphabet == {" ", "\t", "\n", "S", "1", "."}
CharInputs == SeqsUpTo(CharAlphabet, MaxChars)

\* single lines: an opcode token followed by n operands, all "1" but the q-th
Opcodes == {<<"C">>, <<"Y">>, <<"S">>, <<"K">>, <<"T">>, <<"R">>, <<"S", "C">>,
            <<"U">>, <<"D">>, <<"I">>}
OtherOpcodes == {<<"X">>, <<"c">>, <<"S", "S">>}
OperandTokens == {<<"1">>, <<"0">>, <<"1", "2">>, <<"1", ".", "5">>, <<".">>,
                  <<"1", ".", "2", ".", "3">>, <<"-", "1">>, <<"-">>, <<"-", ".", "5">>,
                  <<"a">>, <<"1", "a">>, <<"+", "1">>}
Separators == {<<" ">>, <<"\t", " ">>}

LineOf(op, n, q, t, sep) ==
    JoinWith(<<op>> \o [k \in 1..n |-> IF k = q THEN t ELSE <<"1">>], sep)

LineInputs ==
    {LineOf(op, 0, 0, <<"1">>, SP) : op \in Opcodes \cup OtherOpcodes}
    \cup UNION {UNION {UNION {{LineOf(op, n, q, t, sep) : sep \in Separators}
                    : t \in OperandTokens} : q \in 1..n}
                    : <<op, n>> \in (Opcodes \cup OtherOpcodes) \X (1..MaxOperands)}

\* single lines whose node reference has one digit more than int() converts
LongDigits == [k \in 1..(IntMaxStrDigits + 1) |-> "9"]
LongRefLines ==
    {JoinWith(<<op, LongDigits, <<"1">>, <<"1">>, <<"1">>>>, SP) : op \in TransformOps}
    \cup {JoinWith(<<op, LongDigits, <<"0">>>>, SP) : op \in BooleanOps}
    \cup {JoinWith(<<op, <<"0">>, LongDigits>>, SP) : op \in BooleanOps}
    \cup {JoinWith(<<<<"S">>, LongDigits>>, SP)}

\* programs: lines with node references 0..MaxRef, a line of no grammar entry, a blank line
SphereLine == <<"S", " ", "1">>
BadLine == <<"X", " ", "1">>
BlankLine == <<>>
TransformLine(op, r) ==
    JoinWith(<<op, IntToStr(r), <<"1">>, <<"2">>, <<".", "5">>>>, SP)
BooleanLine(op, a, b) ==
    JoinWith(<<op, IntToStr(a), IntToStr(b)>>, SP)

ProgramLines ==
    {SphereLine, BadLine, BlankLine}
    \cup {TransformLine(<<"T">>, r) : r \in 0..MaxRef}
    \cup {BooleanLine(<<"U">>, 0, b) : b \in 0..MaxRef}
    \cup {BooleanLine(<<"U">>, a, 0) : a \in 0..MaxRef}

Program(lines) ==
    JoinWith(lines, NL)

RepeatLine(line, n) ==
    [k \in 1..n |-> line]

\* j sphere lines followed by one line of any referencing opcode
TailRefPrograms ==
    UNION {{Program(Append(RepeatLine(SphereLine, j), TransformLine(op, r)))
                : <<op, r>> \in TransformOps \X (0..MaxRef)}
           \cup {Program(Append(RepeatLine(SphereLine, j), BooleanLine(op, ab[1], ab[2])))
                : <<op, ab>> \in BooleanOps \X ((0..MaxRef) \X (0..MaxRef))}
           : j \in 0..(MaxLines - 1)}

\* a line of n characters matching no grammar entry, alone or before further lines
LongBadLine(n) ==
    <<"X">> \o [k \in 1..(n - 1) |-> "9"]
LongPrograms ==
    UNION {{LongBadLine(n), Program(<<SphereLine, LongBadLine(n), BadLine>>),
            Program(<<LongBadLine(n), SphereLine>>)} : n \in (ExcerptLen - 1)..LongLine}

\* programs with whitespace around and between the lines
Decorated ==
    { <<" ", "\n">> \o Program(<<SphereLine, TransformLine(<<"T">>, 0)>>) \o <<"\n", "\t">>,
      <<"\n", "\n">> \o BadLine,
      <<"\n">> \o Program(<<SphereLine, <<" ", "\t">>, BadLine>>),
      <<" ">> \o SphereLine \o <<"\r", "\n", " ">> \o BooleanLine(<<"U">>, 0, 0) \o <<" ">>,
      Program(<<SphereLine, <<"\t">>, <<>>, BooleanLine(<<"D">>, 0, 1)>>),
      Program(<<SphereLine, <<"\t">>, SphereLine, BooleanLine(<<"I">>, 0, 1)>>) }

\* the lines that come before the last line of a program
PrefixLines ==
    {SphereLine, BadLine, BlankLine, TransformLine(<<"T">>, 0), BooleanLine(<<"U">>, 0, 0)}

ProgramInputs ==
    {Program(Append(pre, last)) :
        <<pre, last>> \in SeqsUpTo(PrefixLines, MaxLines - 1) \X ProgramLines}
    \cup TailRefPrograms \cup LongPrograms \cup Decorated

TargetIR == Program(<<SphereLine, TransformLine(<<"T">>, 0)>>)

\* an example: the record's "ir" column and the completion generated for its "text"
Example(target, completion) ==
    [ir |-> target, completion |-> completion]

\* the examples of a small dataset
PoolExamples ==
    { Example(TargetIR, TargetIR),
      Example(TargetIR, <<" ">> \o TargetIR \o <<"\n">>),
      Example(TargetIR, SphereLine),
      Example(TargetIR, BadLine),
      Example(TargetIR, Program(<<SphereLine, BadLine>>)),
      Example(TargetIR, TransformLine(<<"T">>, 0)),
      Example(TargetIR, Program(<<SphereLine, TransformLine(<<"T">>, 2)>>)),
      Example(TargetIR, <<" ">>) }

\* strings compared by the exact-match check
MatchAlphabet == {" ", "\n", "1"}
MatchStrings == SeqsUpTo(MatchAlphabet, MaxChars - 1)

\* max_samples = None
NoMax == -1

----------------------------------------------------------------------------
(* evaluate_model as a state machine *)

\* no training run
NoTraining == [pc |-> "none"]

InitWith(ds, vgs, engines, maxes) ==
    /\ dataset \in ds
    /\ validate_geometry \in vgs
    /\ engine \in engines
    /\ max_samples \in maxes
    /\ pc = "start"
    /\ samples = <<>>
    /\ results = <<>>
    /\ errors = EmptyDict
    /\ agg = NotReturned
    /\ cm = NotReturned
    /\ refCalls = 0
    /\ frames = <<>>
    /\ table = COMPACT_IR_PATTERNS
    /\ train = NoTraining

\* datasets of up to MaxExamples examples, every argument combination
Init ==
    InitWith(SeqsUpTo(PoolExamples, MaxExamples), BOOLEAN, {NoEngine, AnEngine},
             {NoMax} \cup 0..MaxExamples)

\* one example, as modal_app's evaluate calls evaluate_model (validate_geometry=False)
InitChars ==
    InitWith({<<Example(TargetIR, c)>> : c \in CharInputs}, {FALSE}, {NoEngine}, {NoMax})

InitLines ==
    InitWith({<<Example(TargetIR, c)>> : c \in LineInputs \cup LongRefLines},
             {FALSE}, {NoEngine}, {NoMax})

InitPrograms ==
    InitWith({<<Example(TargetIR, c)>> : c \in ProgramInputs}, {FALSE}, {NoEngine}, {NoMax})

InitMatch ==
    InitWith({<<Example(t, c)>> : <<t, c>> \in MatchStrings \X MatchStrings},
             {FALSE}, {NoEngine}, {NoMax})

\* samples = dataset, or dataset.select(range(min(max_samples, len(dataset))))
StartEval ==
    /\ pc = "start"
    /\ samples' = IF max_samples = NoMax THEN dataset
                  ELSE SubSeq(dataset, 1, IF max_samples < Len(dataset) THEN max_samples
                                          ELSE Len(dataset))
    /\ pc' = "loop"
    /\ UNCHANGED <<dataset, validate_geometry, engine, max_samples, results, errors, agg, cm, refCalls, frames, table, train>>

\* one iteration of the loop: evaluate_single, results.append, the error histogram
EvaluateExample ==
    /\ pc = "loop"
    /\ Len(results) < Len(samples)
    /\ LET metrics == evaluate_single(samples[Len(results) + 1], validate_geometry, engine) IN
       /\ refCalls' = refCalls + (IF metrics.ref_called THEN 1 ELSE 0)
       /\ IF metrics.raised
          THEN /\ pc' = "raised"
               /\ UNCHANGED <<results, errors>>
          ELSE /\ pc' = pc
               /\ results' = Append(results, EvalMetrics(metrics))
               /\ errors' = CountError(errors, metrics.error_message)
    /\ UNCHANGED <<dataset, validate_geometry, engine, max_samples, samples, agg, cm, frames, table, train>>

\* the aggregation after the loop and the return
Aggregate ==
    /\ pc = "loop"
    /\ Len(results) = Len(samples)
    /\ agg' = AggregateMetrics(results, errors)
    /\ pc' = "returned"
    /\ UNCHANGED <<dataset, validate_geometry, engine, max_samples, samples, results, errors, cm, refCalls, frames, table, train>>

\* compute_metrics called on the list of results
ComputeMetrics ==
    /\ pc = "returned"
    /\ cm = NotReturned
    /\ cm' = compute_metrics(results)
    /\ UNCHANGED <<dataset, validate_geometry, engine, max_samples, pc, samples, results, errors, agg, refCalls, frames, table, train>>

Next ==
    \/ StartEval
    \/ EvaluateExample
    \/ Aggregate
    \/ ComputeMetrics

Spec == Init /\ [][Next]_vars
SpecChars == InitChars /\ [][Next]_vars
SpecLines == InitLines /\ [][Next]_vars
SpecPrograms == InitPrograms /\ [][Next]_vars
SpecMatch == InitMatch /\ [][Next]_vars

----------------------------------------------------------------------------
(* Calls of validate_syntax and validate_references running side by side:   *)
(* each call has its own locals (ir, lines, i, node count) and reads the    *)
(* global COMPACT_IR_PATTERNS                                               *)

MaxCalls == 2

\* does any pattern of the table match the line
MatchedBy(tbl, line) ==
    \E p \in 1..Len(tbl) : PatternMatch(tbl[p].pat, line)

\* the frame of a call at its entry
Frame(fn, ir) ==
    [fn |-> fn, ir |-> ir, pc |-> "entry", lines |-> <<>>, i |-> 0, node |-> 0,
     ret |-> NotReturned]

Return(f, valid, error, raised) ==
    [f EXCEPT !.pc = "done", !.ret = [valid |-> valid, error |-> error, raised |-> raised]]

\* one step of a validate_syntax call: the empty test and the split, one iteration of
\* the loop, or the test of node_count after the loop
SyntaxStep(f, tbl) ==
    IF f.pc = "entry"
    THEN IF f.ir = <<>> \/ Strip(f.ir) = <<>>
         THEN Return(f, FALSE, MsgEmptyIR, FALSE)
         ELSE [f EXCEPT !.pc = "loop", !.lines = Split(Strip(f.ir), "\n"), !.i = 0, !.node = 0]
    ELSE IF f.i >= Len(f.lines)
    THEN IF f.node = 0 THEN Return(f, FALSE, MsgNoValidOps, FALSE)
         ELSE Return(f, TRUE, None, FALSE)
    ELSE LET line == Strip(f.lines[f.i + 1]) IN
         IF IsBlank(line) THEN [f EXCEPT !.i = @ + 1]
         ELSE IF MatchedBy(tbl, line) THEN [f EXCEPT !.i = @ + 1, !.node = @ + 1]
         ELSE Return(f, FALSE, SyntaxErrorMsg(f.i, line), FALSE)

\* one step of a validate_references call: the split, one iteration of the loop, or
\* the return after the loop
ReferencesStep(f) ==
    IF f.pc = "entry"
    THEN [f EXCEPT !.pc = "loop", !.lines = Split(Strip(f.ir), "\n"), !.i = 0, !.node = 0]
    ELSE IF f.i >= Len(f.lines) THEN Return(f, TRUE, None, FALSE)
    ELSE LET line == Strip(f.lines[f.i + 1])
             parts == SplitWs(line)
             op == parts[1]
             next == [f EXCEPT !.i = @ + 1, !.node = @ + 1]
         IN
         IF IsBlank(line) THEN [f EXCEPT !.i = @ + 1]
         ELSE IF op \in TransformOps /\ Len(parts) >= 2
         THEN LET ref == ParseInt(parts[2]) IN
              IF ~ref.ok THEN Return(f, FALSE, None, TRUE)
              ELSE IF OutOfRange(ref.val, f.node)
              THEN Return(f, FALSE, ReferenceErrorMsg(ref.val, f.node), FALSE)
              ELSE next
         ELSE IF op \in BooleanOps /\ Len(parts) >= 3
         THEN LET ref1 == ParseInt(parts[2])
                  ref2 == ParseInt(parts[3])
              IN
              IF ~ref1.ok \/ ~ref2.ok THEN Return(f, FALSE, None, TRUE)
              ELSE IF OutOfRange(ref1.val, f.node) \/ OutOfRange(ref2.val, f.node)
              THEN Return(f, FALSE, ReferencesErrorMsg(ref1.val, ref2.val, f.node), FALSE)
              ELSE next
         ELSE next

\* the node counter is one module-level counter written by every call
StepCall_SharedCounter(fs, c, tbl) ==
    LET stepped == IF fs[c].fn = "validate_syntax" THEN SyntaxStep(fs[c], tbl)
                   ELSE ReferencesStep(fs[c])
    IN  [d \in DOMAIN fs |-> IF d = c THEN stepped
                                ELSE IF fs[d].pc = "loop" THEN [fs[d] EXCEPT !.node = stepped.node]
                                ELSE fs[d]]

\* the frames after call c takes a step: only its own frame changes
StepCall(fs, c, tbl) ==
    [fs EXCEPT ![c] = IF fs[c].fn = "validate_syntax" THEN SyntaxStep(fs[c], tbl)
                      ELSE ReferencesStep(fs[c])]

\* the texts the calls are given
CallInputs ==
    { Program(<<SphereLine, TransformLine(<<"T">>, 0)>>),
      Program(<<SphereLine, BlankLine, BadLine>>),
      Program(<<TransformLine(<<"T">>, 0), SphereLine>>),
      <<" ">> }

Validators == {"validate_syntax", "validate_references"}

InitCalls ==
    /\ frames \in [1..MaxCalls -> {Frame(fn, ir) : <<fn, ir>> \in Validators \X CallInputs}]
    /\ table = COMPACT_IR_PATTERNS
    /\ train = NoTraining
    /\ dataset = <<>>
    /\ validate_geometry = FALSE
    /\ engine = NoEngine
    /\ max_samples = NoMax
    /\ pc = "none"
    /\ samples = <<>>
    /\ results = <<>>
    /\ errors = EmptyDict
    /\ agg = NotReturned
    /\ cm = NotReturned
    /\ refCalls = 0

\* a call that has not returned takes its next step; no step assigns the table
CallStep ==
    \E c \in DOMAIN frames :
        /\ frames[c].pc # "done"
        /\ frames' = StepCall(frames, c, table)
        /\ UNCHANGED <<table, train, evalVars>>

NextCalls ==
    CallStep

SpecCalls == InitCalls /\ [][NextCalls]_vars

----------------------------------------------------------------------------
(* The training run: modal_app.train, train_model and VolumeCommitCallback  *)

\* TrainingConfig.save_steps, with save_strategy = "steps"
save_steps == 500

MaxSteps == 1001

\* the volume argument of train_model
NoVolume == "None"
ModalVolume == "vcad-training-vol"

\* volume.commit(): the checkpoints written so far are committed
Commit(t) ==
    [t EXCEPT !.commits = @ + 1, !.pending = 0]

\* VolumeCommitCallback.on_save, self.volume being the argument of train_model
on_save(t) ==
    IF t.volume # NoVolume THEN Commit(t) ELSE t

\* the Trainer writes a checkpoint and sends on_save to its callbacks
SaveCheckpoint(t) ==
    LET saved == [t EXCEPT !.saves = @ + 1, !.pending = @ + 1] IN
    IF "VolumeCommitCallback" \in {saved.callbacks[k] : k \in DOMAIN saved.callbacks}
    THEN on_save(saved) ELSE saved

InitTrain ==
    /\ train = [pc |-> "idle", caller |-> "none", volume |-> NoVolume, callbacks |-> <<>>,
                global_step |-> 0, saves |-> 0, commits |-> 0, pending |-> 0]
    /\ frames = <<>>
    /\ table = COMPACT_IR_PATTERNS
    /\ dataset = <<>>
    /\ validate_geometry = FALSE
    /\ engine = NoEngine
    /\ max_samples = NoMax
    /\ pc = "none"
    /\ samples = <<>>
    /\ results = <<>>
    /\ errors = EmptyDict
    /\ agg = NotReturned
    /\ cm = NotReturned
    /\ refCalls = 0

\* the train function of the Modal app builds the config and calls train_model(config)
ModalTrain ==
    /\ train.pc = "idle"
    /\ train' = [train EXCEPT !.pc = "setup", !.caller = "modal_train", !.volume = NoVolume]
    /\ UNCHANGED <<frames, table, evalVars>>

\* train_model, exported by the package, called with or without a volume
CallTrainModel ==
    /\ train.pc = "idle"
    /\ \E v \in {NoVolume, ModalVolume} :
          train' = [train EXCEPT !.pc = "setup", !.caller = "train_model", !.volume = v]
    /\ UNCHANGED <<frames, table, evalVars>>

\* train_model up to the construction of the trainer: the callbacks
SetupCallbacks ==
    /\ train.pc = "setup"
    /\ train' = [train EXCEPT !.pc = "training",
                              !.callbacks = IF train.volume # NoVolume
                                            THEN <<"VolumeCommitCallback">> ELSE <<>>]
    /\ UNCHANGED <<frames, table, evalVars>>

\* one optimizer step of trainer.train(), with the checkpoint every save_steps steps
TrainStep ==
    /\ train.pc = "training"
    /\ train.global_step < MaxSteps
    /\ LET stepped == [train EXCEPT !.global_step = @ + 1] IN
       train' = IF stepped.global_step % save_steps = 0 THEN SaveCheckpoint(stepped)
                ELSE stepped
    /\ UNCHANGED <<frames, table, evalVars>>

\* trainer.train() returns after the last step; the Trainer may write a checkpoint at
\* the end of training when the last step wrote none
EndTraining ==
    /\ train.pc = "training"
    /\ \E at_end \in BOOLEAN :
          train' = IF at_end /\ train.global_step % save_steps # 0
                   THEN [SaveCheckpoint(train) EXCEPT !.pc = "trained"]
                   ELSE [train EXCEPT !.pc = "trained"]
    /\ UNCHANGED <<frames, table, evalVars>>

\* the final and the merged model are saved and train_model returns
SaveFinal ==
    /\ train.pc = "trained"
    /\ train' = [train EXCEPT !.pc = "returned"]
    /\ UNCHANGED <<frames, table, evalVars>>

\* volume.commit() of the train function after train_model has returned
FinalCommit ==
    /\ train.pc = "returned"
    /\ train.caller = "modal_train"
    /\ train' = [Commit(train) EXCEPT !.pc = "done"]
    /\ UNCHANGED <<frames, table, evalVars>>

NextTrain ==
    \/ ModalTrain
    \/ CallTrainModel
    \/ SetupCallbacks
    \/ TrainStep
    \/ EndTraining
    \/ SaveFinal
    \/ FinalCommit

SpecTrain == InitTrain /\ [][NextTrain]_vars

----------------------------------------------------------------------------
(* Properties *)

Min(a, b) == IF a < b THEN a ELSE b

NonBlank(line) == Strip(line) # <<>>

\* the non-blank lines of a text, in order
InstructionLines(ir) ==
    SelectSeq(Split(ir, "\n"), NonBlank)

StartsWith(s, prefix) ==
    Len(s) >= Len(prefix) /\ SubSeq(s, 1, Len(prefix)) = prefix

\* C1: the combined check of evaluate_single reports valid iff validate_syntax and
\* validate_references both succeed; when validate_syntax fails the error is its
\* message and validate_references is not called; when it succeeds the validity and
\* the error are those of validate_references.
C1_CombinedCheck ==
    /\ \A k \in DOMAIN results :
        LET c == samples[k].completion
            syn == validate_syntax(c)
            ref == validate_references(c)
            r == results[k]
        IN  /\ r.syntax_valid = (syn.valid /\ ref.valid)
            /\ ~syn.valid => r.error_message = syn.error
            /\ syn.valid => r.syntax_valid = ref.valid /\ r.error_message = ref.error
    /\ pc # "raised"
    /\ refCalls = Cardinality({k \in DOMAIN results :
                                validate_syntax(samples[k].completion).valid})

\* a syntactically valid completion whose references fail: the error reported is the
\* reference error, after one call of validate_references
C1_Witness ==
    \E k \in DOMAIN results :
        /\ validate_syntax(samples[k].completion).valid
        /\ ~validate_references(samples[k].completion).valid
        /\ results[k].error_message = ReferenceErrorMsg(1, 1)
        /\ refCalls = 1

\* the node reference operands of a matched line, as tokens
RefOperands(line) ==
    LET parts == SplitWs(line) IN
    IF parts[1] \in TransformOps THEN <<parts[2]>>
    ELSE IF parts[1] \in BooleanOps THEN <<parts[2], parts[3]>>
    ELSE <<>>

\* every reference on the n-th non-blank line is in 0..n-2 (n-1 lines precede it)
AllRefsBackward(ir) ==
    LET ls == InstructionLines(ir) IN
    \A n \in 1..Len(ls) :
        \A q \in DOMAIN RefOperands(ls[n]) :
            LET v == DigitsValue(RefOperands(ls[n])[q], 0) IN 0 <= v /\ v < n - 1

\* C2: for a syntactically valid program validate_references succeeds iff every node
\* reference on a line with k non-blank lines before it satisfies 0 <= ref < k, and
\* otherwise fails with a dangling-reference error.
C2_ReferencesBackward ==
    \A k \in DOMAIN samples :
        LET c == samples[k].completion
            ref == validate_references(c)
        IN  validate_syntax(c).valid =>
                /\ ~ref.raised
                /\ ref.valid <=> AllRefsBackward(c)
                /\ ~ref.valid => StartsWith(ref.error, Slice(MsgInvalidReference, 17))

\* a union at node 2 whose first reference is in range and whose second is its own index
C2_Witness ==
    \E k \in DOMAIN results :
        /\ validate_syntax(results[k].generated_ir).valid
        /\ results[k].error_message = ReferencesErrorMsg(0, 2, 2)

\* the positions of the non-blank lines of lines that match no grammar entry
BadPositions(lines) ==
    {i \in 1..Len(lines) : NonBlank(lines[i]) /\ ~Matched(Strip(lines[i]))}

FirstOf(S) ==
    CHOOSE f \in S : \A g \in S : f <= g

\* texts put after the first offending line
Tails == {<<>>, <<SphereLine>>, <<BadLine, SphereLine>>, <<TransformLine(<<"T">>, 7)>>}

\* C3: when some non-blank line matches no grammar entry, validate_syntax fails at the
\* first such line with a syntax error carrying the first 50 characters at most of the
\* trimmed line, and the lines after it do not change the verdict.
C3_FailFast ==
    \A k \in DOMAIN results :
        LET c == results[k].generated_ir
            lines == Split(Strip(c), "\n")
            bad == BadPositions(lines)
        IN  bad # {} =>
            LET f == FirstOf(bad)
                line == Strip(lines[f])
                excerpt == SubSeq(line, 1, Min(Len(line), 50))
                syn == validate_syntax(c)
            IN  /\ ~syn.valid
                /\ \E n \in 1..Len(lines) :
                      syn.error = MsgInvalidSyntaxAtLine \o IntToStr(n) \o MsgColonSpace
                                      \o excerpt
                /\ \A tail \in Tails :
                      validate_syntax(Program(SubSeq(lines, 1, f) \o tail)) = syn

\* an offending line of more than 50 characters, after a valid line and before another
\* offending line
C3_Witness ==
    \E k \in DOMAIN results :
        LET lines == Split(Strip(results[k].generated_ir), "\n")
            bad == BadPositions(lines)
        IN  /\ Cardinality(bad) = 2
            /\ FirstOf(bad) = 2
            /\ Len(lines[2]) > 50
            /\ Len(results[k].error_message) = Len(MsgInvalidSyntaxAtLine) + 1 + 2 + 50

WhitespaceOnly(s) ==
    \A i \in 1..Len(s) : s[i] \in Space

\* C4: an empty or whitespace-only string fails with "Empty IR" and with no other
\* error, and "Empty IR" is reported for no other string.
C4_EmptyInput ==
    \A k \in DOMAIN results :
        LET c == results[k].generated_ir
            r == results[k]
        IN  /\ WhitespaceOnly(c) => ~r.syntax_valid /\ r.error_message = MsgEmptyIR
            /\ r.error_message = MsgEmptyIR => WhitespaceOnly(c)
            /\ validate_syntax(c).error = MsgEmptyIR <=> WhitespaceOnly(c)

\* a string of space, tab and newline has been evaluated
C4_Witness ==
    \E k \in DOMAIN results :
        /\ results[k].generated_ir = <<" ", "\t", "\n">>
        /\ results[k].error_message = MsgEmptyIR

\* a text without its blank lines
RemoveBlankLines(ir) ==
    Program(InstructionLines(ir))

\* a text with one more line after its first pos lines
InsertLine(ir, pos, line) ==
    LET ls == Split(ir, "\n") IN
    Program(SubSeq(ls, 1, pos) \o <<line>> \o SubSeq(ls, pos + 1, Len(ls)))

BlankLines == {<<>>, <<" ", "\t">>}

\* both validators pass or fail alike on a and b, and check every instruction at the
\* same node index
SameOutcome(a, b) ==
    LET sa == validate_syntax(a)
        sb == validate_syntax(b)
        ra == validate_references(a)
        rb == validate_references(b)
    IN  /\ sa.valid = sb.valid
        /\ sa.node_count = sb.node_count
        /\ ra.valid = rb.valid
        /\ ra.raised = rb.raised
        /\ ra.checked = rb.checked

\* C5: blank lines are skipped by both validators and consume no node index: removing
\* the blank lines of a text, or inserting a blank line anywhere, changes neither
\* validator's pass/fail result nor the node index at which an instruction is checked.
C5_BlankLines ==
    \A k \in DOMAIN results :
        LET c == results[k].generated_ir IN
        /\ SameOutcome(c, RemoveBlankLines(c))
        /\ \A pos \in 0..Len(Split(c, "\n")) : \A b \in BlankLines :
              SameOutcome(c, InsertLine(c, pos, b))

\* a valid program with a blank line between two instructions, the second referring
\* to the first
C5_Witness ==
    \E k \in DOMAIN results :
        /\ results[k].generated_ir = Program(<<SphereLine, BlankLine, TransformLine(<<"T">>, 0)>>)
        /\ results[k].syntax_valid
        /\ validate_references(results[k].generated_ir).checked = <<0, 1>>

IsInteger(tok) ==
    tok # <<>> /\ \A i \in 1..Len(tok) : tok[i] \in Digit

\* a decimal literal: digits with at most one decimal point, and at least one digit
IsDecimal(tok) ==
    /\ tok # <<>>
    /\ \A i \in 1..Len(tok) : tok[i] \in Digit \cup {"."}
    /\ \E i \in 1..Len(tok) : tok[i] \in Digit
    /\ Cardinality({i \in 1..Len(tok) : tok[i] = "."}) <= 1

IsSignedDecimal(tok) ==
    IsDecimal(tok) \/ (tok # <<>> /\ Head(tok) = "-" /\ IsDecimal(Tail(tok)))

\* a non-empty token of digits and points, the shape [\d.]+ asks for
DecimalShaped(tok) ==
    tok # <<>> /\ \A i \in 1..Len(tok) : tok[i] \in Digit \cup {"."}

SignedDecimalShaped(tok) ==
    DecimalShaped(tok) \/ (tok # <<>> /\ Head(tok) = "-" /\ DecimalShaped(Tail(tok)))

\* the operand kinds of an opcode
Signature(op) ==
    CASE op \in {<<"C">>, <<"K">>} -> <<"decimal", "decimal", "decimal">>
      [] op = <<"Y">> -> <<"decimal", "decimal">>
      [] op = <<"S">> -> <<"decimal">>
      [] op \in {<<"T">>, <<"R">>} -> <<"ref", "signed", "signed", "signed">>
      [] op = <<"S", "C">> -> <<"ref", "decimal", "decimal", "decimal">>
      [] op \in BooleanOps -> <<"ref", "ref">>

OfKind(tok, kind) ==
    CASE kind = "ref" -> IsInteger(tok)
      [] kind = "decimal" -> IsDecimal(tok)
      [] kind = "signed" -> IsSignedDecimal(tok)

OfShape(tok, kind) ==
    CASE kind = "ref" -> IsInteger(tok)
      [] kind = "decimal" -> DecimalShaped(tok)
      [] kind = "signed" -> SignedDecimalShaped(tok)

\* opcode of the grammar, the operand count of its signature, operands of their kinds
WellFormedLine(line) ==
    LET parts == SplitWs(line) IN
    /\ parts[1] \in Opcodes
    /\ Len(parts) - 1 = Len(Signature(parts[1]))
    /\ \A q \in 1..(Len(parts) - 1) : OfKind(parts[q + 1], Signature(parts[1])[q])

WellShapedLine(line) ==
    LET parts == SplitWs(line) IN
    /\ parts[1] \in Opcodes
    /\ Len(parts) - 1 = Len(Signature(parts[1]))
    /\ \A q \in 1..(Len(parts) - 1) : OfShape(parts[q + 1], Signature(parts[1])[q])

SingleLine(c) ==
    c # <<>> /\ c = Strip(c) /\ \A i \in 1..Len(c) : c[i] # "\n"

MsgLine1 == MsgInvalidSyntaxAtLine \o <<"1">> \o MsgColonSpace

\* C6: a single non-blank line is accepted by validate_syntax exactly when its opcode
\* is one of the ten opcodes and it has the operand count of that opcode's signature
\* with operands of the right kind (decimals, signed on T and R only, and node
\* references); any other line fails with a syntax error for line 1.
C6_SingleLine ==
    \A k \in DOMAIN results :
        LET c == results[k].generated_ir
            syn == validate_syntax(c)
        IN  SingleLine(c) =>
                /\ syn.valid <=> WellFormedLine(c)
                /\ ~WellFormedLine(c) => StartsWith(syn.error, MsgLine1)

\* what holds of the code for single lines: the same with every decimal operand only
\* required to be a non-empty token of digits and points
SingleLineByShape ==
    \A k \in DOMAIN results :
        LET c == results[k].generated_ir
            syn == validate_syntax(c)
        IN  SingleLine(c) =>
                /\ syn.valid <=> WellShapedLine(c)
                /\ ~syn.valid => StartsWith(syn.error, MsgLine1)

\* C7: every line a grammar entry matches has lexically valid numeric tokens: each
\* decimal operand a decimal literal (a digit at least, one point at most), each node
\* reference an integer literal.
C7_ValidLiterals ==
    \A k \in DOMAIN results :
        LET ls == InstructionLines(results[k].generated_ir) IN
        \A n \in 1..Len(ls) :
            LET parts == SplitWs(ls[n]) IN
            Matched(Strip(ls[n])) =>
                \A q \in 1..(Len(parts) - 1) : OfKind(parts[q + 1], Signature(parts[1])[q])

\* the error kind a message belongs to
ErrorKind(message) ==
    IF message = MsgEmptyIR THEN "EmptyInput"
    ELSE IF StartsWith(message, MsgInvalidSyntaxAtLine) THEN "SyntaxError"
    ELSE IF message = MsgNoValidOps THEN "NoValidOperations"
    ELSE IF StartsWith(message, Slice(MsgInvalidReference, 17)) THEN "DanglingReference"
    ELSE "Other"

Failed(r) == r.error_message # None /\ r.error_message # <<>>

RECURSIVE SumCounts(_, _)
SumCounts(f, keys) ==
    IF keys = {} THEN 0
    ELSE LET x == CHOOSE y \in keys : TRUE IN f[x] + SumCounts(f, keys \ {x})

\* C8: the histogram key of a failed example is its error kind, so two failed examples
\* of the same kind fall in the same bucket, and each failed example adds exactly 1 to
\* exactly one bucket.
C8_HistogramByKind ==
    /\ \A i, j \in DOMAIN results :
          (/\ Failed(results[i])
           /\ Failed(results[j])
           /\ ErrorKind(results[i].error_message) = ErrorKind(results[j].error_message))
          => error_type(results[i].error_message) = error_type(results[j].error_message)
    /\ SumCounts(errors, DOMAIN errors)
          = Cardinality({k \in DOMAIN results : Failed(results[k])})

\* what holds of the histogram: the key is the message up to its first colon, and
\* the counts add up to the number of failed examples
HistogramByMessageHead ==
    /\ \A key \in DOMAIN errors :
          errors[key] = Cardinality({k \in DOMAIN results :
                            Failed(results[k]) /\ error_type(results[k].error_message) = key})
    /\ SumCounts(errors, DOMAIN errors)
          = Cardinality({k \in DOMAIN results : Failed(results[k])})

\* a string without its leading and trailing whitespace, by positions
Trimmed(s) ==
    LET keep == {i \in 1..Len(s) : s[i] \notin Space} IN
    IF keep = {} THEN <<>>
    ELSE SubSeq(s, FirstOf(keep), CHOOSE l \in keep : \A g \in keep : g <= l)

Pads == {<<>>, <<" ">>, <<"\n", "\t">>}

\* C9: the exact-match flag is true iff target and generated text are equal once each
\* is trimmed of leading and trailing whitespace: it is symmetric, does not change
\* when whitespace is added at an end of either string, and is false when the trimmed
\* strings differ anywhere inside.
C9_ExactMatch ==
    \A k \in DOMAIN results :
        LET t == samples[k].ir
            g == results[k].generated_ir
            flag == results[k].exact_match
        IN  /\ flag <=> Trimmed(t) = Trimmed(g)
            /\ exact_match(g, t) = flag
            /\ \A w1, w2 \in Pads :
                  /\ exact_match(w1 \o t \o w2, g) = flag
                  /\ exact_match(t, w1 \o g \o w2) = flag

\* two different strings that match after trimming
C9_Witness ==
    \E k \in DOMAIN results :
        /\ results[k].exact_match
        /\ samples[k].ir = <<"1", " ">>
        /\ results[k].generated_ir = <<"\n", "1">>

IsQuotient(acc, count, total) ==
    IF total > 0 THEN acc[2] > 0 /\ acc[1] * total = count * acc[2]
    ELSE acc = Zero

\* C10: the aggregate's total is the number of results, each count is the number of
\* results with the flag true and lies in 0..total, each accuracy is count/total, or 0
\* when total is 0, and compute_metrics returns the same three accuracies.
C10_Aggregate ==
    /\ pc = "returned" =>
        LET nSyntax == Cardinality({k \in DOMAIN results : results[k].syntax_valid})
            nGeometry == Cardinality({k \in DOMAIN results : results[k].geometry_valid = GeoTrue})
            nExact == Cardinality({k \in DOMAIN results : results[k].exact_match})
        IN  /\ agg.total = Len(results)
            /\ agg.syntax_valid = nSyntax
            /\ agg.geometry_valid = nGeometry
            /\ agg.exact_match = nExact
            /\ \A n \in {agg.syntax_valid, agg.geometry_valid, agg.exact_match} :
                  0 <= n /\ n <= agg.total
            /\ IsQuotient(agg.syntax_accuracy, nSyntax, agg.total)
            /\ IsQuotient(agg.geometry_accuracy, nGeometry, agg.total)
            /\ IsQuotient(agg.exact_match_accuracy, nExact, agg.total)
    /\ cm # NotReturned =>
        /\ cm.syntax_accuracy = agg.syntax_accuracy
        /\ cm.geometry_accuracy = agg.geometry_accuracy
        /\ cm.exact_match_accuracy = agg.exact_match_accuracy

\* two results, one of them valid and an exact match, aggregated and given to
\* compute_metrics
C10_Witness ==
    /\ cm # NotReturned
    /\ agg.total = 2
    /\ agg.syntax_valid = 1
    /\ agg.geometry_valid = 1
    /\ agg.exact_match = 1
    /\ cm.syntax_accuracy = <<1, 2>>

\* no result, aggregated and given to compute_metrics
C10_WitnessEmpty ==
    /\ cm # NotReturned
    /\ agg.total = 0
    /\ agg.syntax_accuracy = Zero

\* C11: "No valid operations found" is never returned: validate_syntax returns the
\* empty-input error, a syntax error for some line, or success, and when its loop
\* runs to the end the node count is at least 1.
C11_NoValidOpsUnreachable ==
    \A k \in DOMAIN results :
        LET syn == validate_syntax(results[k].generated_ir) IN
        /\ syn.error # MsgNoValidOps
        /\ \/ ~syn.valid /\ syn.error = MsgEmptyIR
           \/ ~syn.valid /\ StartsWith(syn.error, MsgInvalidSyntaxAtLine)
           \/ syn.valid /\ syn.error = None /\ syn.node_count >= 1

\* the loop ran to the end over a text with whitespace before its only instruction
C11_Witness ==
    \E k \in DOMAIN results :
        /\ results[k].generated_ir = <<"\n", "S", " ", "1">>
        /\ validate_syntax(results[k].generated_ir).valid
        /\ validate_syntax(results[k].generated_ir).node_count = 1

\* the verdict of a call that runs alone
Alone(fn, ir) ==
    IF fn = "validate_syntax"
    THEN LET v == validate_syntax(ir) IN [valid |-> v.valid, error |-> v.error, raised |-> FALSE]
    ELSE LET v == validate_references(ir) IN
         [valid |-> v.valid, error |-> v.error, raised |-> v.raised]

\* C12: validation keeps no state between calls: however the calls interleave, each
\* returns the verdict the same call returns when run alone, two calls of one
\* validator on one input return the same verdict, and COMPACT_IR_PATTERNS is never
\* modified.
C12_Stateless ==
    /\ \A c \in DOMAIN frames :
          frames[c].pc = "done" => frames[c].ret = Alone(frames[c].fn, frames[c].ir)
    /\ \A c, d \in DOMAIN frames :
          (/\ frames[c].pc = "done" /\ frames[d].pc = "done"
           /\ frames[c].fn = frames[d].fn /\ frames[c].ir = frames[d].ir)
          => frames[c].ret = frames[d].ret
    /\ table = COMPACT_IR_PATTERNS

\* two calls of validate_references have returned, one of which had passed its first
\* line while the other was still in its loop
C12_Witness ==
    /\ \A c \in DOMAIN frames : frames[c].pc = "done"
    /\ \E c, d \in DOMAIN frames :
          /\ c # d
          /\ frames[c].fn = "validate_references" /\ frames[d].fn = "validate_references"
          /\ frames[c].ir = Program(<<SphereLine, TransformLine(<<"T">>, 0)>>)
          /\ frames[d].ir = Program(<<TransformLine(<<"T">>, 0), SphereLine>>)
          /\ frames[c].ret.valid /\ ~frames[d].ret.valid

\* C13: geometry_valid of a result is None or the placeholder True; it is None when
\* geometry validation was not requested, no engine was supplied or the IR failed
\* the combined check; so the aggregate geometry_valid count never exceeds the
\* aggregate syntax_valid count.
C13_GeometryField ==
    /\ \A k \in DOMAIN results :
          /\ results[k].geometry_valid \in {GeoNone, GeoTrue}
          /\ (~validate_geometry \/ engine = NoEngine \/ ~results[k].syntax_valid)
             => results[k].geometry_valid = GeoNone
          /\ (validate_geometry /\ engine # NoEngine /\ results[k].syntax_valid)
             => results[k].geometry_valid = GeoTrue
    /\ CountGeometryValid(results) <= CountSyntaxValid(results)
    /\ pc = "returned" =>
          /\ agg.geometry_valid = CountGeometryValid(results)
          /\ agg.syntax_valid = CountSyntaxValid(results)
          /\ agg.geometry_valid <= agg.syntax_valid

\* a returned run with geometry validation and an engine, over one valid and one
\* invalid completion: one result is geometry-valid, the other has no geometry verdict
C13_Witness ==
    /\ pc = "returned"
    /\ validate_geometry /\ engine = AnEngine
    /\ Len(results) = 2
    /\ results[1].syntax_valid /\ results[1].geometry_valid = GeoTrue
    /\ ~results[2].syntax_valid /\ results[2].geometry_valid = GeoNone
    /\ agg.geometry_valid = 1 /\ agg.syntax_valid = 1

\* the line number a syntax-error message names
RECURSIVE DigitsEnd(_, _)
DigitsEnd(s, i) ==
    IF i <= Len(s) /\ s[i] \in Digit THEN DigitsEnd(s, i + 1) ELSE i

ReportedLine(message) ==
    LET from == Len(MsgInvalidSyntaxAtLine) + 1 IN
    DigitsValue(SubSeq(message, from, DigitsEnd(message, from) - 1), 0)

\* C14: the line number named in a syntax-error message is the 1-based number of the
\* offending line in the input text passed to validate_syntax, counting every line of
\* that input, blank or not, from its first line.
C14_LineNumberOfInput ==
    \A k \in DOMAIN results :
        LET c == results[k].generated_ir
            syn == validate_syntax(c)
        IN  StartsWith(syn.error, MsgInvalidSyntaxAtLine) =>
                ReportedLine(syn.error) = FirstOf(BadPositions(Split(c, "\n")))

\* what the code does: the number counts the lines of the input with its leading and
\* trailing whitespace removed
LineNumberOfStrippedInput ==
    \A k \in DOMAIN results :
        LET c == results[k].generated_ir
            syn == validate_syntax(c)
        IN  StartsWith(syn.error, MsgInvalidSyntaxAtLine) =>
                ReportedLine(syn.error) = FirstOf(BadPositions(Split(Strip(c), "\n")))

\* 0, 1, ..., n - 1
UpTo(n) == [j \in 1..n |-> j - 1]

RefValues(line) ==
    [q \in DOMAIN RefOperands(line) |-> DigitsValue(RefOperands(line)[q], 0)]

\* the positions, among matched non-blank lines ls, of the lines with a reference that
\* is not below the number of lines before them
DanglingPositions(ls) ==
    {n \in 1..Len(ls) : \E q \in DOMAIN RefValues(ls[n]) : RefValues(ls[n])[q] >= n - 1}

\* the dangling-reference message for the n-th instruction
DanglingMsg(line, n) ==
    LET v == RefValues(line) IN
    IF Len(v) = 1 THEN ReferenceErrorMsg(v[1], n - 1)
    ELSE ReferencesErrorMsg(v[1], v[2], n - 1)

\* C16: a syntax violation anywhere takes precedence over any reference violation: if
\* some non-blank line matches no grammar entry the combined check reports the syntax
\* error of the first such line, even after a line with an out-of-range reference; a
\* dangling-reference error is reported only when every non-blank line is valid, and
\* then for the first line whose reference is out of range.
C16_SyntaxFirst ==
    \A k \in DOMAIN results :
        LET c == results[k].generated_ir
            lines == Split(Strip(c), "\n")
            bad == BadPositions(lines)
            ls == InstructionLines(c)
        IN  /\ bad # {} =>
                /\ ~results[k].syntax_valid
                /\ results[k].error_message
                       = SyntaxErrorMsg(FirstOf(bad) - 1, Strip(lines[FirstOf(bad)]))
            /\ ErrorKind(results[k].error_message) = "DanglingReference" => bad = {}
            /\ (bad = {} /\ ls # <<>>) =>
                  IF DanglingPositions(ls) = {}
                  THEN results[k].syntax_valid /\ results[k].error_message = None
                  ELSE /\ ~results[k].syntax_valid
                       /\ results[k].error_message
                              = DanglingMsg(ls[FirstOf(DanglingPositions(ls))],
                                            FirstOf(DanglingPositions(ls)))

\* a program whose first line refers to a node that does not exist and whose second
\* line matches no grammar entry: the syntax error of line 2 is reported
C16_Witness ==
    \E k \in DOMAIN results :
        /\ results[k].generated_ir = Program(<<TransformLine(<<"T">>, 0), BadLine>>)
        /\ ~validate_references(results[k].generated_ir).valid
        /\ results[k].error_message = SyntaxErrorMsg(1, BadLine)

\* a program of valid lines of which the first and the second have a reference out of
\* range: the error of the first is reported
C16_WitnessDangling ==
    \E k \in DOMAIN results :
        /\ BadPositions(Split(Strip(results[k].generated_ir), "\n")) = {}
        /\ DanglingPositions(InstructionLines(results[k].generated_ir)) = {1, 2}
        /\ results[k].error_message = ReferenceErrorMsg(0, 0)

\* C17: validation outcomes are returned as verdicts and never raised: validate_syntax
\* returns a verdict for every input, and on every input it accepts
\* validate_references returns a verdict too, the integer conversion accepting the
\* first operand of every T/R/SC line and the first two of every U/D/I line.
C17_NeverRaises ==
    /\ pc # "raised"
    /\ \A k \in DOMAIN samples :
          LET c == samples[k].completion
              syn == validate_syntax(c)
          IN  /\ syn.valid \in BOOLEAN
              /\ syn.valid => syn.error = None
              /\ ~syn.valid => syn.error # None
              /\ syn.valid =>
                    /\ ~validate_references(c).raised
                    /\ \A n \in DOMAIN InstructionLines(c) :
                          \A q \in DOMAIN RefOperands(InstructionLines(c)[n]) :
                              ParseInt(RefOperands(InstructionLines(c)[n])[q]).ok

\* what the code does: validate_references raises only on an accepted line with a
\* node reference of more than IntMaxStrDigits digits
RaisesOnlyBeyondDigitLimit ==
    /\ \A k \in DOMAIN samples :
          LET c == samples[k].completion IN
          validate_syntax(c).valid =>
              (validate_references(c).raised
                  <=> \E n \in DOMAIN InstructionLines(c) :
                         \E q \in DOMAIN RefOperands(InstructionLines(c)[n]) :
                             Len(RefOperands(InstructionLines(c)[n])[q]) > IntMaxStrDigits)
    /\ pc = "raised" => /\ validate_syntax(samples[Len(results) + 1].completion).valid
                        /\ validate_references(samples[Len(results) + 1].completion).raised

\* C18: in a training run started by the Modal app's train function every checkpoint
\* save is followed by a commit of the volume before the next checkpoint save: no
\* saved checkpoint is left uncommitted while training goes on, and the commits are
\* not only the one issued after train_model has returned.
C18_CommitAfterEachSave ==
    train.caller = "modal_train" =>
        /\ train.pending = 0
        /\ train.commits >= train.saves

\* what the code does in a run started by the train function: no callback is
\* installed and nothing is committed until train_model has returned, then one commit
OnlyFinalCommit ==
    train.caller = "modal_train" =>
        /\ train.volume = NoVolume /\ train.callbacks = <<>>
        /\ train.pc # "done" => train.commits = 0 /\ train.pending = train.saves
        /\ train.pc = "done" => train.commits = 1 /\ train.pending = 0

\* a run of train_model that was given a volume commits at every checkpoint save
CommitWithVolume ==
    (train.caller = "train_model" /\ train.volume = ModalVolume) =>
        train.pending = 0 /\ train.commits = train.saves

\* a run started by the train function in which two checkpoints have been saved and
\* none committed
TwoSavesNoCommit ==
    /\ train.caller = "modal_train" /\ train.pc = "training"
    /\ train.global_step = 2 * save_steps
    /\ train.saves = 2 /\ train.commits = 0

\* the combined check, as evaluate_single composes it, accepts the text
Accepted(c) ==
    evaluate_single(Example(TargetIR, c), FALSE, NoEngine).syntax_valid

PrimitiveOps == {<<"C">>, <<"Y">>, <<"S">>, <<"K">>}

\* one line of each primitive opcode with a valid signature
PrimitiveLines ==
    {JoinWith(<<op>> \o [q \in 1..Len(Signature(op)) |-> <<"1">>], SP) : op \in PrimitiveOps}

\* C19: validity is prefix-closed over instruction sequences: when the combined check
\* accepts a program it accepts every program made of a non-empty prefix of its
\* non-blank lines, and the program followed by a primitive line; so the first
\* instruction of an accepted program is a primitive.
C19_PrefixClosed ==
    \A k \in DOMAIN results :
        LET c == results[k].generated_ir
            ls == InstructionLines(c)
        IN  results[k].syntax_valid =>
            /\ Accepted(c)
            /\ Len(ls) >= 1
            /\ \A n \in 1..Len(ls) : Accepted(Program(SubSeq(ls, 1, n)))
            /\ \A p \in PrimitiveLines : Accepted(c \o NL \o p)
            /\ SplitWs(ls[1])[1] \in PrimitiveOps

\* an accepted program of three instructions, the last two referring to earlier nodes
C19_Witness ==
    \E k \in DOMAIN results :
        /\ results[k].syntax_valid
        /\ results[k].generated_ir
               = Program(<<SphereLine, TransformLine(<<"T">>, 0), BooleanLine(<<"U">>, 0, 1)>>)

====
